---- MODULE Spec2Model ----
(***************************************************************************)
(* The season aggregations of F1Dashboard (src/f1_dashboard.py):           *)
(* count_podiums, count_dnfs, compare_drivers, export_full_season_details  *)
(* and export_all_time_race_data.  Every aggregation reads a schedule from *)
(* the data provider, keeps the rounds whose EventDate lies before the     *)
(* current time, fetches each of them in turn inside a try/except and      *)
(* folds the rows of the fetched result set into dictionaries.             *)
(*                                                                         *)
(* The provider's answers are the input: they are chosen in Init and never *)
(* change.  One action models one loop iteration (or the code before or    *)
(* after a loop) of one aggregation.                                       *)
(***************************************************************************)
EXTENDS Integers, Sequences, FiniteSets, TLC

(***************************************************************************)
(* Bounds of the input.                                                    *)
(***************************************************************************)
\* rounds in the schedule of one season (single-season aggregations)
MaxRounds == 2
\* rows in the result set of one round
MaxRows == 4
\* rounds in the schedules of all seasons together (multi-season aggregations)
MaxTotalRounds == 3

\* The time at which the aggregation is called; event dates are drawn around
\* it, and the clock advances by at most one unit during the call.
Now == 2

\* A Position that is absent (pandas NaN).  Real positions are 1, 2, ...
NaN == 0

\* A Points value that is no number (None): adding it to a number raises.
BadPoints == -1

\* F1Dashboard.count_podiums takes head(3) of the sorted rows.
PodiumSize == 3

(***************************************************************************)
(* Small helpers.                                                          *)
(***************************************************************************)
Min(a, b) == IF a < b THEN a ELSE b

Range(s) == {s[i] : i \in 1..Len(s)}

RECURSIVE SumOver(_, _)
\* the sum of f[k] over the keys k in keys
SumOver(f, keys) ==
    IF keys = {} THEN 0
    ELSE LET k == CHOOSE x \in keys : TRUE
         IN  f[k] + SumOver(f, keys \ {k})

\* the sum of the values of a mapping
MapSum(f) == SumOver(f, DOMAIN f)

(***************************************************************************)
(* The provider's data.                                                    *)
(***************************************************************************)
DriverOrder == <<"VER", "HAM", "PER", "ALO", "LEC">>

Drivers == Range(DriverOrder)

TeamOf(d) ==
    CASE d \in {"VER", "PER"} -> "Red Bull"
      [] d \in {"HAM"}        -> "Mercedes"
      [] OTHER                -> "Ferrari"

Statuses == {"Finished", "Retired", "Disqualified", "+1 Lap"}

YearList == <<2021, 2022>>

\* the points the provider awards for a position
PointsFor(pos) == IF pos = NaN \/ pos > 3 THEN 0 ELSE 4 - pos

\* One row of session.results.
Row(drv, pos, status, pts) ==
    [Abbreviation |-> drv, TeamName |-> TeamOf(drv), Position |-> pos,
     Status |-> status, Points |-> pts]

\* A result set of n rows, listed in DriverOrder.  Row i finishes in rank
\* ((i - 1 + d) % n) + 1, so d = 0 lists the rows by position and d = 1 lists
\* the winner last; the k lowest ranks have no Position and status Retired;
\* the lowest classified row has status s; row b (if any) has no usable Points.
ResultSet(n, d, k, s, b) ==
    [i \in 1..n |->
        LET rank == ((i - 1 + d) % n) + 1
            pos  == IF rank > n - k THEN NaN ELSE rank
            st   == IF pos = NaN THEN "Retired"
                    ELSE IF rank = n - k THEN s ELSE "Finished"
        IN  Row(DriverOrder[i], pos, st, IF i = b THEN BadPoints ELSE PointsFor(pos))]

\* What get_session + load + the session's data are for one round: the fetch
\* raises (ok = FALSE), or it yields the rows of session.results; laps is
\* what session.laps.pick_fastest() gives: a lap, or an exception (ok = FALSE).
FastestLap(drv) == [ok |-> TRUE, Driver |-> drv, LapTime |-> "0 days 00:01:30"]

NoLaps == [ok |-> FALSE, Driver |-> "", LapTime |-> ""]

Fetched(rows, laps) == [ok |-> TRUE, rows |-> rows, laps |-> laps]

FetchFailure == [ok |-> FALSE, rows |-> <<>>, laps |-> NoLaps]

\* the ways a result set of n rows is listed: by position, or winner last
Listings(n) == 0..(Min(n, 2) - 1)

\* The result sets count_podiums is run on: 1..MaxRows rows, listed by
\* position or not; no row, one row or every row without a Position.
PodiumOutcomes ==
    {FetchFailure} \cup
    UNION {{Fetched(ResultSet(n, d, k, "Finished", 0), NoLaps) :
                d \in Listings(n), k \in {0, 1, n}} : n \in 1..MaxRows}

\* The sessions every aggregation is run on in Spec: the fetch fails, or one
\* of two result sets.
CommonOutcomes ==
    {FetchFailure,
     Fetched(ResultSet(MaxRows, 0, 1, "Disqualified", 0), FastestLap("HAM")),
     Fetched(ResultSet(2, 1, 0, "Finished", 0), NoLaps)}

\* Event dates around the current time, ascending with the round number.
AscDates(n) ==
    {ds \in [1..n -> {Now - 1, Now, Now + 1}] :
        \A i \in 1..n : \A j \in i..n : ds[i] <= ds[j]}

\* What get_race_schedule(year) returns: None (ok = FALSE) when
\* fastf1.get_event_schedule raises, else the rounds of the season, each with
\* the session the provider holds for it.
NoSchedule == [ok |-> FALSE, rounds |-> <<>>]

\* the schedule of n rounds with event dates ds and sessions outs
Schedule(n, ds, outs) ==
    [ok |-> TRUE,
     rounds |-> [i \in 1..n |-> [RoundNumber |-> i, EventDate |-> ds[i],
                                 session |-> outs[i]]]]

\* A call of an aggregation: its name and arguments.
Call(op, years, d1, d2) == [op |-> op, years |-> years, driver1 |-> d1, driver2 |-> d2]

(***************************************************************************)
(* Python dictionaries: the items in insertion order.                      *)
(***************************************************************************)
Keys(d) == {d[i].k : i \in 1..Len(d)}

IndexOf(d, key) == CHOOSE i \in 1..Len(d) : d[i].k = key

Get(d, key) == d[IndexOf(d, key)].v

\* d[key] = val
Put(d, key, val) ==
    IF key \in Keys(d) THEN [d EXCEPT ![IndexOf(d, key)].v = val]
    ELSE Append(d, [k |-> key, v |-> val])

\* the dictionary as a mapping, without the order of its items
AsMap(d) == [key \in Keys(d) |-> Get(d, key)]

RECURSIVE InsertDesc(_, _)
InsertDesc(sorted, item) ==
    IF sorted = <<>> THEN <<item>>
    ELSE IF Head(sorted).v < item.v THEN <<item>> \o sorted
    ELSE <<Head(sorted)>> \o InsertDesc(Tail(sorted), item)

RECURSIVE SortedByValueDesc(_)
\* sorted(d.items(), key=lambda x: x[1], reverse=True): stable
SortedByValueDesc(d) ==
    IF d = <<>> THEN <<>>
    ELSE InsertDesc(SortedByValueDesc(SubSeq(d, 1, Len(d) - 1)), d[Len(d)])

(***************************************************************************)
(* The state.                                                              *)
(***************************************************************************)
VARIABLES
    provider,           \* year -> what get_race_schedule and get_session answer
    call,               \* the aggregation called and its arguments
    pc,                 \* "start", "years", "rounds", "done"
    year_idx,           \* position of the for-year loop in call.years
    completed_rounds,   \* the round numbers kept by the EventDate filter
    round_idx,          \* position of the for-round loop in completed_rounds
    podium_counts,
    dnf_counts,
    comparison_data,
    driver1_points, driver2_points, driver1_wins, driver2_wins,
    all_results, driver_points, team_points,
    all_races,
    attempts,           \* the <<year, round>> of every get_session call, in order
    messages,           \* the lines printed about a year or a round, in order
    files,              \* the CSV files written, in order
    returned,           \* the value returned once pc = "done"
    clock,              \* the time datetime.now() gives when it is read
    filtered_at         \* year -> the time read when its schedule was filtered
                        \* (0: not filtered)

control == <<pc, year_idx, completed_rounds, round_idx>>
podiumVars == <<podium_counts>>
dnfVars == <<dnf_counts>>
compareVars == <<comparison_data, driver1_points, driver2_points, driver1_wins, driver2_wins>>
exportVars == <<all_results, driver_points, team_points>>
allTimeVars == <<all_races>>
logVars == <<attempts, messages, files>>
timeVars == <<clock, filtered_at>>

vars == <<provider, call, control, podiumVars, dnfVars, compareVars, exportVars,
          allTimeVars, logVars, returned, timeVars>>

\* the value of a bare "return"; NotReturned while the call runs
None == [kind |-> "None"]
NotReturned == [kind |-> "running"]

(***************************************************************************)
(* Code shared by the aggregations.                                        *)
(***************************************************************************)
\* the bug "a failing get_event_schedule gives a schedule without rounds"
get_race_schedule_or_empty(year) ==
    IF provider[year].ok THEN provider[year] ELSE [ok |-> TRUE, rounds |-> <<>>]

\* F1Dashboard.get_race_schedule
get_race_schedule(year) == provider[year]

\* the bug "the filter keeps the rounds dated now as well"
CompletedRoundsUpToNow(race_schedule, now) ==
    LET kept == SelectSeq(race_schedule.rounds, LAMBDA r : r.EventDate <= now)
    IN  [i \in 1..Len(kept) |-> kept[i].RoundNumber]

\* race_schedule[race_schedule['EventDate'] < pd.Timestamp(datetime.now())]
\*     ['RoundNumber'].tolist()
CompletedRounds(race_schedule, now) ==
    LET kept == SelectSeq(race_schedule.rounds, LAMBDA r : r.EventDate < now)
    IN  [i \in 1..Len(kept) |-> kept[i].RoundNumber]

\* the session the provider holds for round round_num of a schedule
SessionIn(race_schedule, round_num) ==
    LET rounds == race_schedule.rounds
        i == CHOOSE j \in 1..Len(rounds) : rounds[j].RoundNumber = round_num
    IN  rounds[i].session

\* fastf1.get_session(year, round_num, 'R') followed by session.load()
get_session(year, round_num) == SessionIn(provider[year], round_num)

\* the year and the round the loops are at
CurYear == call.years[year_idx]

\* the bug "the for-round loop runs over the rounds from the last to the first"
CurRoundFromLast == completed_rounds[Len(completed_rounds) + 1 - round_idx]

CurRound == completed_rounds[round_idx]

\* the bug "a failed round ends the loop": break where the code has continue
AfterRoundBreak(raised) ==
    IF raised THEN Len(completed_rounds) + 1 ELSE round_idx + 1

\* The position of the for-round loop after an iteration.  The except branch
\* ends in "continue", so the loop goes on to the next round either way.
AfterRound(raised) == round_idx + 1

\* Time passes while the rounds of a season are fetched.  The aggregations
\* over several seasons read datetime.now() anew for every year, so the
\* reading for a later year can be later than the one for the first year.
Tick ==
    /\ pc = "rounds"
    /\ clock < Now + 1
    /\ clock' = clock + 1
    /\ UNCHANGED <<provider, call, control, podiumVars, dnfVars, compareVars, exportVars,
                   allTimeVars, logVars, returned, filtered_at>>

ErrorRound(year, round_num) == [kind |-> "Error processing round", year |-> year, round |-> round_num]
ErrorSchedule(year) == [kind |-> "Error getting race schedule", year |-> year, round |-> 0]

(***************************************************************************)
(* count_podiums                                                           *)
(***************************************************************************)
\* a sorts strictly before b under sort_values('Position'): NaN sorts last
PositionBefore(a, b) ==
    a.Position # NaN /\ (b.Position = NaN \/ a.Position < b.Position)

RECURSIVE InsertByPosition(_, _)
InsertByPosition(sorted, row) ==
    IF sorted = <<>> THEN <<row>>
    ELSE IF PositionBefore(row, Head(sorted)) THEN <<row>> \o sorted
    ELSE <<Head(sorted)>> \o InsertByPosition(Tail(sorted), row)

RECURSIVE SortValuesPosition(_)
\* session.results.sort_values('Position'): ascending, rows without a
\* Position last, rows that compare equal in the provider's order
SortValuesPosition(rows) ==
    IF rows = <<>> THEN <<>>
    ELSE InsertByPosition(SortValuesPosition(SubSeq(rows, 1, Len(rows) - 1)),
                          rows[Len(rows)])

\* the bug "the sorted rows are not cut to n"
HeadRowsAll(rows, n) == rows

\* .head(n)
HeadRows(rows, n) == SubSeq(rows, 1, Min(n, Len(rows)))

\* ['Abbreviation'].tolist()
Abbreviations(rows) == [i \in 1..Len(rows) |-> rows[i].Abbreviation]

\* session.results.sort_values('Position').head(3)['Abbreviation'].tolist()
PodiumDrivers(rows) ==
    Abbreviations(HeadRows(SortValuesPosition(rows), PodiumSize))

RECURSIVE CountUp(_, _)
\* for driver in drivers: counts[driver] += 1 if driver in counts, else = 1
CountUp(counts, drivers) ==
    IF drivers = <<>> THEN counts
    ELSE LET driver == Head(drivers)
             next == IF driver \in Keys(counts)
                     THEN Put(counts, driver, Get(counts, driver) + 1)
                     ELSE Put(counts, driver, 1)
         IN  CountUp(next, Tail(drivers))

\* the bug "a failed round starts the tally afresh"
PodiumRoundResetOnFailure(counts, session) ==
    IF session.ok THEN CountUp(counts, PodiumDrivers(session.rows)) ELSE <<>>

\* the body of the for-round loop: the try block, or the except branch
PodiumRound(counts, session) ==
    IF session.ok THEN CountUp(counts, PodiumDrivers(session.rows)) ELSE counts

RECURSIVE PodiumRounds(_, _, _)
\* the for-round loop over the round numbers nums of a schedule
PodiumRounds(counts, race_schedule, nums) ==
    IF nums = <<>> THEN counts
    ELSE PodiumRounds(PodiumRound(counts, SessionIn(race_schedule, Head(nums))),
                      race_schedule, Tail(nums))

\* podium_counts at the end of count_podiums on a schedule that is not None
RunCountPodiums(race_schedule, now) ==
    PodiumRounds(<<>>, race_schedule, CompletedRounds(race_schedule, now))

\* the bug "podium_counts is kept on the object from one call to the next"
PodiumCountsKept == podium_counts

\* podium_counts = {}
FreshPodiumCounts == <<>>

CountPodiumsBegin ==
    /\ pc = "start"
    /\ call.op = "count_podiums"
    /\ podium_counts' = FreshPodiumCounts
    /\ LET race_schedule == get_race_schedule(CurYear)
       IN  IF ~race_schedule.ok
           THEN /\ messages' = Append(messages, ErrorSchedule(CurYear))
                /\ returned' = None
                /\ pc' = "done"
                /\ UNCHANGED <<completed_rounds, round_idx, filtered_at>>
           ELSE /\ completed_rounds' = CompletedRounds(race_schedule, clock)
                /\ filtered_at' = [filtered_at EXCEPT ![CurYear] = clock]
                /\ round_idx' = 1
                /\ pc' = "rounds"
                /\ UNCHANGED <<messages, returned>>
    /\ UNCHANGED <<provider, call, clock,  year_idx, dnfVars, compareVars, exportVars,
                   allTimeVars, attempts, files>>

CountPodiumsRound ==
    /\ pc = "rounds"
    /\ call.op = "count_podiums"
    /\ round_idx <= Len(completed_rounds)
    /\ LET session == get_session(CurYear, CurRound)
       IN  /\ attempts' = Append(attempts, <<CurYear, CurRound>>)
           /\ podium_counts' = PodiumRound(podium_counts, session)
           /\ messages' = IF session.ok THEN messages
                          ELSE Append(messages, ErrorRound(CurYear, CurRound))
           /\ round_idx' = AfterRound(~session.ok)
    /\ UNCHANGED <<provider, call, timeVars,  pc, year_idx, completed_rounds, dnfVars,
                   compareVars, exportVars, allTimeVars, files, returned>>

CountPodiumsFinish ==
    /\ pc = "rounds"
    /\ call.op = "count_podiums"
    /\ round_idx > Len(completed_rounds)
    /\ returned' = [kind |-> "podium_df", rows |-> SortedByValueDesc(podium_counts)]
    /\ pc' = "done"
    /\ UNCHANGED <<provider, call, timeVars,  year_idx, completed_rounds, round_idx, podiumVars,
                   dnfVars, compareVars, exportVars, allTimeVars, logVars>>

NextPodiums == CountPodiumsBegin \/ CountPodiumsRound \/ CountPodiumsFinish

(***************************************************************************)
(* count_dnfs                                                              *)
(***************************************************************************)
\* The result sets count_dnfs is run on: at most one row without a Position
\* (status Retired), the lowest classified row with any other status.
DnfOutcomes ==
    {FetchFailure} \cup
    UNION {{Fetched(ResultSet(n, 0, k, s, 0), NoLaps) :
                k \in 0..1, s \in Statuses \ {"Retired"}} : n \in 1..MaxRows}

\* the bug "a driver a lap down counts as finished"
DnfDriversLappedFinished(rows) ==
    Abbreviations(SelectSeq(rows, LAMBDA r : ~(r.Status \in {"Finished", "+1 Lap"})))

\* session.results[~session.results['Status'].isin(['Finished'])]
\*     ['Abbreviation'].tolist()
DnfDrivers(rows) ==
    Abbreviations(SelectSeq(rows, LAMBDA r : ~(r.Status \in {"Finished"})))

\* the bug "every fetched round starts the counts afresh"
DnfRoundOfLastRound(counts, session) ==
    IF session.ok THEN CountUp(<<>>, DnfDrivers(session.rows)) ELSE counts

\* the body of the for-round loop: the try block, or the except branch
DnfRound(counts, session) ==
    IF session.ok THEN CountUp(counts, DnfDrivers(session.rows)) ELSE counts

RECURSIVE DnfRounds(_, _, _)
\* the for-round loop over the round numbers nums of a schedule
DnfRounds(counts, race_schedule, nums) ==
    IF nums = <<>> THEN counts
    ELSE DnfRounds(DnfRound(counts, SessionIn(race_schedule, Head(nums))),
                   race_schedule, Tail(nums))

\* dnf_counts at the end of count_dnfs on a schedule that is not None
RunCountDnfs(race_schedule, now) ==
    DnfRounds(<<>>, race_schedule, CompletedRounds(race_schedule, now))

CountDnfsBegin ==
    /\ pc = "start"
    /\ call.op = "count_dnfs"
    /\ dnf_counts' = <<>>
    /\ LET race_schedule == get_race_schedule(CurYear)
       IN  IF ~race_schedule.ok
           THEN /\ messages' = Append(messages, ErrorSchedule(CurYear))
                /\ returned' = None
                /\ pc' = "done"
                /\ UNCHANGED <<completed_rounds, round_idx, filtered_at>>
           ELSE /\ completed_rounds' = CompletedRounds(race_schedule, clock)
                /\ filtered_at' = [filtered_at EXCEPT ![CurYear] = clock]
                /\ round_idx' = 1
                /\ pc' = "rounds"
                /\ UNCHANGED <<messages, returned>>
    /\ UNCHANGED <<provider, call, clock,  year_idx, podiumVars, compareVars, exportVars,
                   allTimeVars, attempts, files>>

CountDnfsRound ==
    /\ pc = "rounds"
    /\ call.op = "count_dnfs"
    /\ round_idx <= Len(completed_rounds)
    /\ LET session == get_session(CurYear, CurRound)
       IN  /\ attempts' = Append(attempts, <<CurYear, CurRound>>)
           /\ dnf_counts' = DnfRound(dnf_counts, session)
           /\ messages' = IF session.ok THEN messages
                          ELSE Append(messages, ErrorRound(CurYear, CurRound))
           /\ round_idx' = AfterRound(~session.ok)
    /\ UNCHANGED <<provider, call, timeVars,  pc, year_idx, completed_rounds, podiumVars,
                   compareVars, exportVars, allTimeVars, files, returned>>

CountDnfsFinish ==
    /\ pc = "rounds"
    /\ call.op = "count_dnfs"
    /\ round_idx > Len(completed_rounds)
    /\ returned' = [kind |-> "dnf_df", rows |-> SortedByValueDesc(dnf_counts)]
    /\ pc' = "done"
    /\ UNCHANGED <<provider, call, timeVars,  year_idx, completed_rounds, round_idx, podiumVars,
                   dnfVars, compareVars, exportVars, allTimeVars, logVars>>

NextDnfs == CountDnfsBegin \/ CountDnfsRound \/ CountDnfsFinish

(***************************************************************************)
(* compare_drivers                                                         *)
(***************************************************************************)
\* The result sets compare_drivers is run on: VER alone, or VER and HAM with
\* either of them the winner; every row with a Position and numeric Points.
CompareOutcomes ==
    {FetchFailure} \cup
    UNION {{Fetched(ResultSet(n, d, 0, "Finished", 0), NoLaps) :
                d \in Listings(n)} : n \in {1, 2}}

\* the pairs of drivers compared
DriverPairs == {<<"VER", "HAM">>, <<"HAM", "HAM">>}

\* session.results[session.results['Abbreviation'] == driver]
ResultOf(rows, driver) == SelectSeq(rows, LAMBDA r : r.Abbreviation = driver)

\* the bug "every classified finish counts as a win"
AddDriverAnyPositionWins(t, driver_result) ==
    IF driver_result = <<>> THEN t
    ELSE IF driver_result[1].Points = BadPoints THEN [t EXCEPT !.raised = TRUE]
    ELSE [points |-> t.points + driver_result[1].Points,
          wins   |-> IF driver_result[1].Position >= 1 THEN t.wins + 1 ELSE t.wins,
          raised |-> FALSE]

\* "if not driver_result.empty: points += Points; if Position == 1: wins += 1"
\* on the counters t of one driver; adding Points that are no number raises
AddDriver(t, driver_result) ==
    IF driver_result = <<>> THEN t
    ELSE IF driver_result[1].Points = BadPoints THEN [t EXCEPT !.raised = TRUE]
    ELSE [points |-> t.points + driver_result[1].Points,
          wins   |-> IF driver_result[1].Position = 1 THEN t.wins + 1 ELSE t.wins,
          raised |-> FALSE]

\* the bug "driver 2 is added only when driver 1 has no row": elif for if
CompareRoundElif(c, session, driver1, driver2) ==
    IF ~session.ok THEN [c EXCEPT !.raised = TRUE]
    ELSE LET r1 == ResultOf(session.rows, driver1)
             t1 == AddDriver([points |-> c.p1, wins |-> c.w1, raised |-> FALSE], r1)
             t2 == AddDriver([points |-> c.p2, wins |-> c.w2, raised |-> FALSE],
                             ResultOf(session.rows, driver2))
         IN  IF r1 # <<>>
             THEN [p1 |-> t1.points, w1 |-> t1.wins, p2 |-> c.p2, w2 |-> c.w2,
                   raised |-> t1.raised]
             ELSE [p1 |-> c.p1, w1 |-> c.w1, p2 |-> t2.points, w2 |-> t2.wins,
                   raised |-> t2.raised]

\* The body of the for-round loop on the four counters c: driver 1 is added
\* first, driver 2 only if that did not raise.
CompareRound(c, session, driver1, driver2) ==
    IF ~session.ok THEN [c EXCEPT !.raised = TRUE]
    ELSE LET t1 == AddDriver([points |-> c.p1, wins |-> c.w1, raised |-> FALSE],
                             ResultOf(session.rows, driver1))
             t2 == AddDriver([points |-> c.p2, wins |-> c.w2, raised |-> FALSE],
                             ResultOf(session.rows, driver2))
         IN  IF t1.raised THEN [c EXCEPT !.raised = TRUE]
             ELSE IF t2.raised
                  THEN [p1 |-> t1.points, w1 |-> t1.wins, p2 |-> c.p2, w2 |-> c.w2,
                        raised |-> TRUE]
                  ELSE [p1 |-> t1.points, w1 |-> t1.wins, p2 |-> t2.points,
                        w2 |-> t2.wins, raised |-> FALSE]

\* The dictionary literal appended to comparison_data: a key written twice
\* keeps its last value.
ComparisonRecord(year, driver1, driver2, p1, p2, w1, w2) ==
    Put(Put(Put(Put(Put(<<>>, <<"Year", "">>, year),
                        <<driver1, "Points">>, p1),
                    <<driver2, "Points">>, p2),
                <<driver1, "Wins">>, w1),
            <<driver2, "Wins">>, w2)

\* the bug "the counters are set to 0 once, before the for-year loop"
CountersCarriedOver ==
    [p1 |-> driver1_points, w1 |-> driver1_wins, p2 |-> driver2_points,
     w2 |-> driver2_wins, raised |-> FALSE]

\* the four counters as a season starts: each is set to 0
ZeroCounters == [p1 |-> 0, w1 |-> 0, p2 |-> 0, w2 |-> 0, raised |-> FALSE]

RECURSIVE CompareRounds(_, _, _, _, _)
\* the for-round loop over the round numbers nums of a schedule
CompareRounds(c, race_schedule, nums, driver1, driver2) ==
    IF nums = <<>> THEN c
    ELSE CompareRounds(CompareRound([c EXCEPT !.raised = FALSE],
                                    SessionIn(race_schedule, Head(nums)),
                                    driver1, driver2),
                       race_schedule, Tail(nums), driver1, driver2)

RECURSIVE RunCompareDrivers(_, _, _, _, _)
\* comparison_data at the end of compare_drivers on the schedules prov, when
\* the schedule of year y is filtered at time nows[y]
RunCompareDrivers(prov, nows, years, driver1, driver2) ==
    IF years = <<>> THEN <<>>
    ELSE LET year == Head(years)
             rest == RunCompareDrivers(prov, nows, Tail(years), driver1, driver2)
             c    == CompareRounds(ZeroCounters, prov[year],
                                   CompletedRounds(prov[year], nows[year]),
                                   driver1, driver2)
         IN  IF ~prov[year].ok THEN rest
             ELSE <<ComparisonRecord(year, driver1, driver2, c.p1, c.p2, c.w1, c.w2)>>
                  \o rest

CompareDriversBegin ==
    /\ pc = "start"
    /\ call.op = "compare_drivers"
    /\ comparison_data' = <<>>
    /\ year_idx' = 1
    /\ pc' = "years"
    /\ UNCHANGED <<provider, call, timeVars,  completed_rounds, round_idx, podiumVars, dnfVars,
                   driver1_points, driver2_points, driver1_wins, driver2_wins,
                   exportVars, allTimeVars, logVars, returned>>

\* the head of the for-year loop, up to the for-round loop
CompareDriversYear ==
    /\ pc = "years"
    /\ call.op = "compare_drivers"
    /\ year_idx <= Len(call.years)
    /\ driver1_points' = ZeroCounters.p1
    /\ driver2_points' = ZeroCounters.p2
    /\ driver1_wins' = ZeroCounters.w1
    /\ driver2_wins' = ZeroCounters.w2
    /\ LET race_schedule == get_race_schedule(CurYear)
       IN  IF ~race_schedule.ok
           THEN /\ messages' = Append(messages, ErrorSchedule(CurYear))
                /\ year_idx' = year_idx + 1
                /\ UNCHANGED <<pc, completed_rounds, round_idx, filtered_at>>
           ELSE /\ completed_rounds' = CompletedRounds(race_schedule, clock)
                /\ filtered_at' = [filtered_at EXCEPT ![CurYear] = clock]
                /\ round_idx' = 1
                /\ pc' = "rounds"
                /\ UNCHANGED <<messages, year_idx>>
    /\ UNCHANGED <<provider, call, clock,  podiumVars, dnfVars, comparison_data, exportVars,
                   allTimeVars, attempts, files, returned>>

CompareDriversRound ==
    /\ pc = "rounds"
    /\ call.op = "compare_drivers"
    /\ round_idx <= Len(completed_rounds)
    /\ LET session == get_session(CurYear, CurRound)
           c == CompareRound([p1 |-> driver1_points, w1 |-> driver1_wins,
                              p2 |-> driver2_points, w2 |-> driver2_wins,
                              raised |-> FALSE],
                             session, call.driver1, call.driver2)
       IN  /\ attempts' = Append(attempts, <<CurYear, CurRound>>)
           /\ driver1_points' = c.p1
           /\ driver1_wins' = c.w1
           /\ driver2_points' = c.p2
           /\ driver2_wins' = c.w2
           /\ messages' = IF c.raised
                          THEN Append(messages, ErrorRound(CurYear, CurRound))
                          ELSE messages
           /\ round_idx' = AfterRound(c.raised)
    /\ UNCHANGED <<provider, call, timeVars,  pc, year_idx, completed_rounds, podiumVars, dnfVars,
                   comparison_data, exportVars, allTimeVars, files, returned>>

\* after the for-round loop: the season's record is appended
CompareDriversYearEnd ==
    /\ pc = "rounds"
    /\ call.op = "compare_drivers"
    /\ round_idx > Len(completed_rounds)
    /\ comparison_data' =
          Append(comparison_data,
                 ComparisonRecord(CurYear, call.driver1, call.driver2,
                                  driver1_points, driver2_points,
                                  driver1_wins, driver2_wins))
    /\ year_idx' = year_idx + 1
    /\ pc' = "years"
    /\ UNCHANGED <<provider, call, timeVars,  completed_rounds, round_idx, podiumVars, dnfVars,
                   driver1_points, driver2_points, driver1_wins, driver2_wins,
                   exportVars, allTimeVars, logVars, returned>>

CompareDriversFinish ==
    /\ pc = "years"
    /\ call.op = "compare_drivers"
    /\ year_idx > Len(call.years)
    /\ returned' = [kind |-> "comparison_df", rows |-> comparison_data]
    /\ pc' = "done"
    /\ UNCHANGED <<provider, call, timeVars,  year_idx, completed_rounds, round_idx, podiumVars,
                   dnfVars, compareVars, exportVars, allTimeVars, logVars>>

NextCompare ==
    \/ Tick
    \/ CompareDriversBegin
    \/ CompareDriversYear
    \/ CompareDriversRound
    \/ CompareDriversYearEnd
    \/ CompareDriversFinish

(***************************************************************************)
(* export_full_season_details                                              *)
(***************************************************************************)
\* The result sets export_full_season_details is run on: every row with a
\* Position; no row, the first row or the last row with Points that are no
\* number.
ExportOutcomes ==
    {FetchFailure} \cup
    UNION {{Fetched(ResultSet(n, d, 0, "Finished", b), NoLaps) :
                d \in Listings(n), b \in {0, 1, n}} : n \in 1..MaxRows}

\* "if key not in d: d[key] = 0"
SetDefaultZero(d, key) == IF key \in Keys(d) THEN d ELSE Put(d, key, 0)

\* the bug "every row carries the total of the first driver of the season"
TotalOfFirstDriver(points_so_far, driver) == points_so_far[1].v

\* 'CumulativePoints': driver_points[driver]
RunningTotal(points_so_far, driver) == Get(points_so_far, driver)

\* The body of "for _, result in session.results.iterrows()" for one row on
\* t = [all_results, driver_points, team_points, raised].  The driver's entry
\* is created before the Points are added; adding Points that are no number
\* raises and leaves the statements after it undone.
ExportRow(t, round_num, result) ==
    LET driver == result.Abbreviation
        team   == result.TeamName
        points == result.Points
        dp0    == SetDefaultZero(t.driver_points, driver)
        dp1    == Put(dp0, driver, Get(dp0, driver) + points)
        tp0    == SetDefaultZero(t.team_points, team)
        tp1    == Put(tp0, team, Get(tp0, team) + points)
    IN  IF points = BadPoints
        THEN [t EXCEPT !.driver_points = dp0, !.raised = TRUE]
        ELSE [all_results |->
                  Append(t.all_results,
                         [Round |-> round_num, Driver |-> driver, Team |-> team,
                          Position |-> result.Position, Points |-> points,
                          Status |-> result.Status,
                          CumulativePoints |-> RunningTotal(dp1, driver)]),
              driver_points |-> dp1,
              team_points |-> tp1,
              raised |-> FALSE]

RECURSIVE ExportRows(_, _, _)
\* the for-loop over the rows: it stops at the row that raises
ExportRows(t, round_num, rows) ==
    IF rows = <<>> \/ t.raised THEN t
    ELSE ExportRows(ExportRow(t, round_num, Head(rows)), round_num, Tail(rows))

\* the body of the for-round loop: the try block, left where it raises
ExportRound(t, round_num, session) ==
    IF ~session.ok THEN [t EXCEPT !.raised = TRUE]
    ELSE ExportRows(t, round_num, session.rows)

\* the three structures when export_full_season_details starts its loop
EmptySeason ==
    [all_results |-> <<>>, driver_points |-> <<>>, team_points |-> <<>>,
     raised |-> FALSE]

RECURSIVE ExportRounds(_, _, _)
\* the for-round loop over the round numbers nums of a schedule
ExportRounds(t, race_schedule, nums) ==
    IF nums = <<>> THEN t
    ELSE ExportRounds(ExportRound([t EXCEPT !.raised = FALSE], Head(nums),
                                  SessionIn(race_schedule, Head(nums))),
                      race_schedule, Tail(nums))

\* all_results, driver_points and team_points at the end of the loop of
\* export_full_season_details on a schedule that is not None
RunExportSeason(race_schedule, now) ==
    ExportRounds(EmptySeason, race_schedule, CompletedRounds(race_schedule, now))

ExportSeasonBegin ==
    /\ pc = "start"
    /\ call.op = "export_full_season_details"
    /\ LET race_schedule == get_race_schedule(CurYear)
       IN  IF ~race_schedule.ok
           THEN /\ messages' = Append(messages, ErrorSchedule(CurYear))
                /\ returned' = None
                /\ pc' = "done"
                /\ UNCHANGED <<completed_rounds, round_idx, exportVars, filtered_at>>
           ELSE /\ all_results' = <<>>
                /\ driver_points' = <<>>
                /\ team_points' = <<>>
                /\ completed_rounds' = CompletedRounds(race_schedule, clock)
                /\ filtered_at' = [filtered_at EXCEPT ![CurYear] = clock]
                /\ round_idx' = 1
                /\ pc' = "rounds"
                /\ UNCHANGED <<messages, returned>>
    /\ UNCHANGED <<provider, call, clock,  year_idx, podiumVars, dnfVars, compareVars,
                   allTimeVars, attempts, files>>

ExportSeasonRound ==
    /\ pc = "rounds"
    /\ call.op = "export_full_season_details"
    /\ round_idx <= Len(completed_rounds)
    /\ LET session == get_session(CurYear, CurRound)
           t == ExportRound([all_results |-> all_results,
                             driver_points |-> driver_points,
                             team_points |-> team_points, raised |-> FALSE],
                            CurRound, session)
           processing == [kind |-> "Processing round", year |-> CurYear,
                          round |-> CurRound]
       IN  /\ attempts' = Append(attempts, <<CurYear, CurRound>>)
           /\ all_results' = t.all_results
           /\ driver_points' = t.driver_points
           /\ team_points' = t.team_points
           /\ messages' = IF t.raised
                          THEN messages \o <<processing, ErrorRound(CurYear, CurRound)>>
                          ELSE Append(messages, processing)
           /\ round_idx' = AfterRound(t.raised)
    /\ UNCHANGED <<provider, call, timeVars,  pc, year_idx, completed_rounds, podiumVars, dnfVars,
                   compareVars, allTimeVars, files, returned>>

\* after the loop: the three frames are built and written, then returned
ExportSeasonFinish ==
    /\ pc = "rounds"
    /\ call.op = "export_full_season_details"
    /\ round_idx > Len(completed_rounds)
    /\ files' = files \o <<[name |-> "full_season_results", year |-> CurYear],
                           [name |-> "driver_standings", year |-> CurYear],
                           [name |-> "team_standings", year |-> CurYear]>>
    /\ returned' = [kind |-> "season",
                    results_df |-> all_results,
                    driver_standings |-> SortedByValueDesc(driver_points),
                    team_standings |-> SortedByValueDesc(team_points)]
    /\ pc' = "done"
    /\ UNCHANGED <<provider, call, timeVars,  year_idx, completed_rounds, round_idx, podiumVars,
                   dnfVars, compareVars, exportVars, allTimeVars, attempts, messages>>

NextExport == ExportSeasonBegin \/ ExportSeasonRound \/ ExportSeasonFinish

(***************************************************************************)
(* export_all_time_race_data                                               *)
(***************************************************************************)
\* The sessions export_all_time_race_data is run on: the fetch fails, the
\* result set is empty (the winner lookup raises), or there is a winner, with
\* or without a fastest lap.
AllTimeOutcomes ==
    {FetchFailure,
     Fetched(<<>>, FastestLap("VER")),
     Fetched(ResultSet(2, 0, 0, "Finished", 0), FastestLap("HAM")),
     Fetched(ResultSet(2, 1, 0, "Finished", 0), NoLaps)}

\* the bug "a failing pick_fastest is caught by the outer except": the round
\* is dropped
AllTimeRoundWithoutInnerTry(year, round_num, session) ==
    IF ~session.ok \/ session.rows = <<>> \/ ~session.laps.ok
    THEN [raised |-> TRUE, race_info |-> <<>>]
    ELSE LET winner == SortValuesPosition(session.rows)[1]
         IN  [raised |-> FALSE,
              race_info |->
                 [Year |-> year, Round |-> round_num,
                  Winner |-> winner.Abbreviation,
                  WinningTeam |-> winner.TeamName,
                  FastestLapDriver |-> session.laps.Driver,
                  FastestLapTime |-> session.laps.LapTime]]

\* The body of the for-round loop: the record appended to all_races, or
\* raised = TRUE when the try block is left before the append.  iloc[0] of
\* an empty frame raises; a failing pick_fastest is caught by the inner except.
AllTimeRound(year, round_num, session) ==
    IF ~session.ok \/ session.rows = <<>>
    THEN [raised |-> TRUE, race_info |-> <<>>]
    ELSE LET winner == SortValuesPosition(session.rows)[1]
         IN  [raised |-> FALSE,
              race_info |->
                 [Year |-> year, Round |-> round_num,
                  Winner |-> winner.Abbreviation,
                  WinningTeam |-> winner.TeamName,
                  FastestLapDriver |-> IF session.laps.ok THEN session.laps.Driver
                                       ELSE "N/A",
                  FastestLapTime |-> IF session.laps.ok THEN session.laps.LapTime
                                     ELSE "N/A"]]

ExportAllTimeBegin ==
    /\ pc = "start"
    /\ call.op = "export_all_time_race_data"
    /\ all_races' = <<>>
    /\ year_idx' = 1
    /\ pc' = "years"
    /\ UNCHANGED <<provider, call, timeVars,  completed_rounds, round_idx, podiumVars, dnfVars,
                   compareVars, exportVars, logVars, returned>>

\* the head of the for-year loop, up to the for-round loop
ExportAllTimeYear ==
    /\ pc = "years"
    /\ call.op = "export_all_time_race_data"
    /\ year_idx <= Len(call.years)
    /\ LET race_schedule == get_race_schedule(CurYear)
           processing == [kind |-> "Processing year", year |-> CurYear, round |-> 0]
       IN  IF ~race_schedule.ok
           THEN /\ messages' = messages \o <<processing, ErrorSchedule(CurYear)>>
                /\ year_idx' = year_idx + 1
                /\ UNCHANGED <<pc, completed_rounds, round_idx, filtered_at>>
           ELSE /\ messages' = Append(messages, processing)
                /\ completed_rounds' = CompletedRounds(race_schedule, clock)
                /\ filtered_at' = [filtered_at EXCEPT ![CurYear] = clock]
                /\ round_idx' = 1
                /\ pc' = "rounds"
                /\ UNCHANGED year_idx
    /\ UNCHANGED <<provider, call, clock,  podiumVars, dnfVars, compareVars, exportVars,
                   allTimeVars, attempts, files, returned>>

ExportAllTimeRound ==
    /\ pc = "rounds"
    /\ call.op = "export_all_time_race_data"
    /\ round_idx <= Len(completed_rounds)
    /\ LET session == get_session(CurYear, CurRound)
           r == AllTimeRound(CurYear, CurRound, session)
       IN  /\ attempts' = Append(attempts, <<CurYear, CurRound>>)
           /\ all_races' = IF r.raised THEN all_races
                           ELSE Append(all_races, r.race_info)
           /\ messages' = IF r.raised
                          THEN Append(messages, ErrorRound(CurYear, CurRound))
                          ELSE messages
           /\ round_idx' = AfterRound(r.raised)
    /\ UNCHANGED <<provider, call, timeVars,  pc, year_idx, completed_rounds, podiumVars, dnfVars,
                   compareVars, exportVars, files, returned>>

\* the for-round loop is exhausted: on to the next year
ExportAllTimeYearEnd ==
    /\ pc = "rounds"
    /\ call.op = "export_all_time_race_data"
    /\ round_idx > Len(completed_rounds)
    /\ year_idx' = year_idx + 1
    /\ pc' = "years"
    /\ UNCHANGED <<provider, call, timeVars,  completed_rounds, round_idx, podiumVars, dnfVars,
                   compareVars, exportVars, allTimeVars, logVars, returned>>

\* the bug "the file is written when the first year is done"
ExportAllTimeFinishAfterFirstYear ==
    /\ pc = "years"
    /\ call.op = "export_all_time_race_data"
    /\ year_idx > 1
    /\ files' = Append(files, [name |-> "all_f1_races", year |-> call.years[1]])
    /\ returned' = [kind |-> "races_df", rows |-> all_races]
    /\ pc' = "done"
    /\ UNCHANGED <<provider, call, timeVars,  year_idx, completed_rounds, round_idx, podiumVars,
                   dnfVars, compareVars, exportVars, allTimeVars, attempts, messages>>

\* after the loops: the frame is built, written and returned
ExportAllTimeFinish ==
    /\ pc = "years"
    /\ call.op = "export_all_time_race_data"
    /\ year_idx > Len(call.years)
    /\ files' = Append(files, [name |-> "all_f1_races", year |-> call.years[1]])
    /\ returned' = [kind |-> "races_df", rows |-> all_races]
    /\ pc' = "done"
    /\ UNCHANGED <<provider, call, timeVars,  year_idx, completed_rounds, round_idx, podiumVars,
                   dnfVars, compareVars, exportVars, allTimeVars, attempts, messages>>

NextAllTime ==
    \/ Tick
    \/ ExportAllTimeBegin
    \/ ExportAllTimeYear
    \/ ExportAllTimeRound
    \/ ExportAllTimeYearEnd
    \/ ExportAllTimeFinish

(***************************************************************************)
(* The specifications.                                                     *)
(***************************************************************************)
\* the state when an aggregation is called on a constructed F1Dashboard
Called(c, prov) ==
    /\ call = c
    /\ provider = prov
    /\ pc = "start"
    /\ year_idx = 1
    /\ completed_rounds = <<>>
    /\ round_idx = 1
    /\ podium_counts = <<>>
    /\ dnf_counts = <<>>
    /\ comparison_data = <<>>
    /\ driver1_points = 0
    /\ driver2_points = 0
    /\ driver1_wins = 0
    /\ driver2_wins = 0
    /\ all_results = <<>>
    /\ driver_points = <<>>
    /\ team_points = <<>>
    /\ all_races = <<>>
    /\ attempts = <<>>
    /\ messages = <<>>
    /\ files = <<>>
    /\ returned = NotReturned
    /\ clock = Now
    /\ filtered_at = [y \in DOMAIN prov |-> 0]

\* the schedules of n rounds with sessions from outcomes; a season without
\* rounds may also be one whose schedule cannot be enumerated
SchedulesOf(n, outcomes) ==
    {Schedule(n, ds, outs) : ds \in AscDates(n), outs \in [1..n -> outcomes]}
    \cup (IF n = 0 THEN {NoSchedule} ELSE {})

\* a single-season aggregation is called on a season of 0..MaxRounds rounds
CalledOneSeason(op, outcomes) ==
    \E n \in 0..MaxRounds :
        \E sched \in SchedulesOf(n, outcomes) :
            Called(Call(op, <<YearList[1]>>, "", ""), [y \in {YearList[1]} |-> sched])

\* a multi-season aggregation is called on the seasons of YearList, which
\* have 0..MaxTotalRounds rounds together
CalledSeasons(op, d1, d2, outcomes) ==
    \E n1 \in 0..MaxTotalRounds :
        \E n2 \in 0..(MaxTotalRounds - n1) :
            \E s1 \in SchedulesOf(n1, outcomes), s2 \in SchedulesOf(n2, outcomes) :
                Called(Call(op, YearList, d1, d2),
                       [y \in Range(YearList) |-> IF y = YearList[1] THEN s1 ELSE s2])

InitPodiums == CalledOneSeason("count_podiums", PodiumOutcomes)

InitDnfs == CalledOneSeason("count_dnfs", DnfOutcomes)

InitCompare ==
    \E pair \in DriverPairs :
        CalledSeasons("compare_drivers", pair[1], pair[2], CompareOutcomes)

InitExport == CalledOneSeason("export_full_season_details", ExportOutcomes)

InitAllTime == CalledSeasons("export_all_time_race_data", "", "", AllTimeOutcomes)

\* one aggregation each, on the result sets that exercise it
SpecPodiums == InitPodiums /\ [][NextPodiums]_vars

SpecDnfs == InitDnfs /\ [][NextDnfs]_vars

SpecCompare == InitCompare /\ [][NextCompare]_vars

SpecExport == InitExport /\ [][NextExport]_vars

SpecAllTime == InitAllTime /\ [][NextAllTime]_vars

\* any of the aggregations, on the common sessions
Init ==
    \/ \E op \in {"count_podiums", "count_dnfs", "export_full_season_details"} :
          CalledOneSeason(op, CommonOutcomes)
    \/ \E pair \in DriverPairs :
          CalledSeasons("compare_drivers", pair[1], pair[2], CommonOutcomes)
    \/ CalledSeasons("export_all_time_race_data", "", "", CommonOutcomes)

Next == NextPodiums \/ NextDnfs \/ NextCompare \/ NextExport \/ NextAllTime

Spec == Init /\ [][Next]_vars

(***************************************************************************)
(* Schedules as the provider lists them.  The aggregations take the        *)
(* RoundNumber column of the filtered schedule as it comes: they neither   *)
(* sort it nor drop a number that is listed twice.                         *)
(***************************************************************************)
\* the sessions of the listed schedules: the fetch fails or yields two rows
ListedOutcomes ==
    {FetchFailure, Fetched(ResultSet(2, 1, 0, "Finished", 0), FastestLap("HAM"))}

\* the round numbers of a schedule of n events, in any order: 1..n, and 0,
\* the number of an event that is no race
RoundListings(n) == [1..n -> 0..n]

\* the schedule that lists the round numbers nums, every event dated before
\* the call; outs[k] is the session of round number k
ListedSchedule(nums, outs) ==
    [ok |-> TRUE,
     rounds |-> [i \in 1..Len(nums) |-> [RoundNumber |-> nums[i], EventDate |-> Now - 1,
                                         session |-> outs[nums[i]]]]]

ListedSchedulesOf(n) ==
    {ListedSchedule(nums, outs) : nums \in RoundListings(n),
                                  outs \in [0..n -> ListedOutcomes]}

\* a single-season aggregation is called on a listed schedule
CalledOneListed(op) ==
    \E n \in 0..MaxRounds :
        \E sched \in ListedSchedulesOf(n) :
            Called(Call(op, <<YearList[1]>>, "", ""), [y \in {YearList[1]} |-> sched])

\* a multi-season aggregation is called on two listed schedules
CalledListed(op, d1, d2) ==
    \E n1 \in 0..MaxRounds :
        \E n2 \in 0..Min(MaxRounds, MaxTotalRounds - n1) :
            \E s1 \in ListedSchedulesOf(n1), s2 \in ListedSchedulesOf(n2) :
                Called(Call(op, YearList, d1, d2),
                       [y \in Range(YearList) |-> IF y = YearList[1] THEN s1 ELSE s2])

InitOrder ==
    \/ \E op \in {"count_podiums", "count_dnfs", "export_full_season_details"} :
          CalledOneListed(op)
    \/ CalledListed("compare_drivers", "VER", "HAM")
    \/ CalledListed("export_all_time_race_data", "", "")

\* any of the aggregations, on schedules listed in any order
SpecOrder == InitOrder /\ [][Next]_vars

(***************************************************************************)
(* An export that the operator interrupts.  KeyboardInterrupt is no        *)
(* Exception: the "except Exception" branches let it pass and it ends the  *)
(* process in __main__; the bare "except:" around pick_fastest catches it. *)
(***************************************************************************)
\* the interrupt ends the process wherever the call is
Interrupt ==
    /\ pc \in {"start", "years", "rounds"}
    /\ pc' = "interrupted"
    /\ UNCHANGED <<provider, call, year_idx, completed_rounds, round_idx, podiumVars,
                   dnfVars, compareVars, exportVars, allTimeVars, logVars, returned,
                   timeVars>>

\* the interrupt arrives while export_all_time_race_data picks the fastest
\* lap of a fetched round: the round is recorded without it and the loop
\* goes on
InterruptInFastestLap ==
    /\ pc = "rounds"
    /\ call.op = "export_all_time_race_data"
    /\ round_idx <= Len(completed_rounds)
    /\ LET session == get_session(CurYear, CurRound)
           r == AllTimeRound(CurYear, CurRound, [session EXCEPT !.laps = NoLaps])
       IN  /\ ~r.raised
           /\ attempts' = Append(attempts, <<CurYear, CurRound>>)
           /\ all_races' = Append(all_races, r.race_info)
           /\ round_idx' = AfterRound(FALSE)
    /\ UNCHANGED <<provider, call, timeVars, pc, year_idx, completed_rounds, podiumVars,
                   dnfVars, compareVars, exportVars, messages, files, returned>>

InitExports == InitExport \/ InitAllTime

NextInterrupted == NextExport \/ NextAllTime \/ Interrupt \/ InterruptInFastestLap

\* the two exports, interrupted at any point or not at all
SpecInterrupted == InitExports /\ [][NextInterrupted]_vars

(***************************************************************************)
(* Several calls on one F1Dashboard object, as the interactive menu makes  *)
(* them.  The provider's data stay the same from call to call.             *)
(***************************************************************************)
\* calls made on one object
MaxCalls == 2

\* the seasons of the object's provider: every event dated before the call
SessionSchedulesOf(n) ==
    {Schedule(n, [i \in 1..n |-> Now - 1], outs) : outs \in [1..n -> CommonOutcomes]}
    \cup (IF n = 0 THEN {NoSchedule} ELSE {})

\* the nth call on the object: an aggregation with its arguments
NthCall(op, y, nth) ==
    LET one_season == op \in {"count_podiums", "count_dnfs", "export_full_season_details"}
    IN  [op |-> op, years |-> IF one_season THEN <<y>> ELSE YearList,
         driver1 |-> IF op = "compare_drivers" THEN "VER" ELSE "",
         driver2 |-> IF op = "compare_drivers" THEN "HAM" ELSE "", nth |-> nth]

Aggregations ==
    {"count_podiums", "count_dnfs", "compare_drivers", "export_full_season_details",
     "export_all_time_race_data"}

\* the first call on a constructed object
InitCalls ==
    \E n1 \in 0..MaxRounds :
        \E n2 \in 0..Min(MaxRounds, MaxTotalRounds - n1) :
            \E s1 \in SessionSchedulesOf(n1), s2 \in SessionSchedulesOf(n2) :
                \E op \in Aggregations, y \in Range(YearList) :
                    Called(NthCall(op, y, 1),
                           [z \in Range(YearList) |-> IF z = YearList[1] THEN s1 ELSE s2])

\* A call has returned and the next one is made on the same object.  What
\* the earlier calls left in their local variables is still there; only the
\* record of what this call fetches, prints and writes starts empty.
CallAgain ==
    /\ pc = "done"
    /\ call.nth < MaxCalls
    /\ \E op \in Aggregations, y \in Range(YearList) :
          call' = NthCall(op, y, call.nth + 1)
    /\ pc' = "start"
    /\ year_idx' = 1
    /\ returned' = NotReturned
    /\ attempts' = <<>>
    /\ messages' = <<>>
    /\ files' = <<>>
    /\ filtered_at' = [y \in DOMAIN provider |-> 0]
    /\ UNCHANGED <<provider, clock, completed_rounds, round_idx, podiumVars, dnfVars,
                   compareVars, exportVars, allTimeVars>>

NextCalls == Next \/ CallAgain

SpecCalls == InitCalls /\ [][NextCalls]_vars

(***************************************************************************)
(* What the claims are stated on.                                          *)
(***************************************************************************)
\* the session of the i-th fetch attempt
AttemptedSession(i) == get_session(attempts[i][1], attempts[i][2])

\* the fetch attempts that succeeded
FetchedOk == {i \in 1..Len(attempts) : AttemptedSession(i).ok}

\* the rows of driver d in a result set
RowsOfDriver(rows, d) == {i \in 1..Len(rows) : rows[i].Abbreviation = d}

\* the count a tally holds for driver d: 0 when d is no key
CountOf(counts, d) == IF d \in Keys(counts) THEN Get(counts, d) ELSE 0

\* the sum of the counts of a tally
TotalOf(counts) == MapSum(AsMap(counts))

(***************************************************************************)
(* C1.  count_podiums: the podium counts of all drivers sum to 3 times the *)
(* number of rounds fetched successfully.                                  *)
(***************************************************************************)
\* C1 as stated: when count_podiums has finished, the sum of the podium
\* counts equals 3 times the number of successfully fetched rounds.
C1_SumIsThreePerRound ==
    (call.op = "count_podiums" /\ pc = "done" /\ returned.kind = "podium_df")
        => /\ TotalOf(podium_counts) = 3 * Cardinality(FetchedOk)
           /\ TotalOf(returned.rows) = 3 * Cardinality(FetchedOk)

\* C1 as amended: after every round and when count_podiums has finished, the
\* sum of the podium counts equals the sum, over the successfully fetched
\* rounds, of the smaller of 3 and the number of rows of the round.
C1_SumIsMinThreeRows ==
    call.op = "count_podiums"
        => LET expected ==
                   SumOver([i \in FetchedOk |-> Min(3, Len(AttemptedSession(i).rows))],
                           FetchedOk)
           IN  /\ TotalOf(podium_counts) = expected
               /\ returned.kind = "podium_df" => TotalOf(returned.rows) = expected

\* count_podiums has finished a season with a round of more than three rows
\* and a round of fewer than three rows, both fetched
C1_Witness ==
    /\ call.op = "count_podiums"
    /\ returned.kind = "podium_df"
    /\ \E i \in FetchedOk : Len(AttemptedSession(i).rows) > 3
    /\ \E i \in FetchedOk : Len(AttemptedSession(i).rows) < 3

(***************************************************************************)
(* C4.  count_podiums: a driver without a Position in a fetched round gets *)
(* no podium for that round.                                               *)
(***************************************************************************)
\* C4: the podium count of every driver is at most the number of
\* successfully fetched rounds in which the driver has a row with a Position.
C4_NoPodiumWithoutPosition ==
    call.op = "count_podiums"
        => \A d \in Drivers :
              CountOf(podium_counts, d) <=
                 Cardinality({i \in FetchedOk :
                                 \E j \in RowsOfDriver(AttemptedSession(i).rows, d) :
                                     AttemptedSession(i).rows[j].Position # NaN})

(***************************************************************************)
(* C5.  count_dnfs: the DNF count of a driver is the number of fetched     *)
(* rounds in which the driver's status is not exactly 'Finished'.          *)
(***************************************************************************)
\* the fetched rounds in which driver d has a row with another status than
\* 'Finished'
UnfinishedRounds(d) ==
    {i \in FetchedOk :
        \E j \in RowsOfDriver(AttemptedSession(i).rows, d) :
            AttemptedSession(i).rows[j].Status # "Finished"}

\* the number of rows with another status than 'Finished' in a result set
UnfinishedRows(rows) ==
    Cardinality({j \in 1..Len(rows) : rows[j].Status # "Finished"})

\* C5: after every round and when count_dnfs has finished, every driver's
\* DNF count is the number of successfully fetched rounds in which the
\* driver's status is not 'Finished', a driver is a key of the tally only if
\* that number is positive, and the counts sum to the number of such rows.
C5_DnfCounts ==
    call.op = "count_dnfs"
        => /\ \A d \in Drivers :
                 /\ CountOf(dnf_counts, d) = Cardinality(UnfinishedRounds(d))
                 /\ d \in Keys(dnf_counts) <=> UnfinishedRounds(d) # {}
           /\ Keys(dnf_counts) \subseteq Drivers
           /\ TotalOf(dnf_counts) =
                 SumOver([i \in FetchedOk |-> UnfinishedRows(AttemptedSession(i).rows)],
                         FetchedOk)
           /\ returned.kind = "dnf_df" => AsMap(returned.rows) = AsMap(dnf_counts)

\* count_dnfs has finished a season in which a driver was disqualified, a
\* driver finished a lap down, a driver retired and a driver always finished
C5_Witness ==
    /\ call.op = "count_dnfs"
    /\ returned.kind = "dnf_df"
    /\ \E i \in FetchedOk : \E j \in 1..Len(AttemptedSession(i).rows) :
          AttemptedSession(i).rows[j].Status = "Disqualified"
    /\ \E i \in FetchedOk : \E j \in 1..Len(AttemptedSession(i).rows) :
          AttemptedSession(i).rows[j].Status = "+1 Lap"
    /\ \E i \in FetchedOk : \E j \in 1..Len(AttemptedSession(i).rows) :
          AttemptedSession(i).rows[j].Status = "Retired"
    /\ \E d \in Drivers :
          /\ d \notin Keys(dnf_counts)
          /\ \E i \in FetchedOk : RowsOfDriver(AttemptedSession(i).rows, d) # {}

(***************************************************************************)
(* C2.  A round whose fetch fails leaves the final tallies as they are     *)
(* when the round is not in the schedule at all.                           *)
(***************************************************************************)
\* the schedule without its i-th round
WithoutRound(race_schedule, i) ==
    [race_schedule EXCEPT
        !.rounds = SubSeq(@, 1, i - 1) \o SubSeq(@, i + 1, Len(@))]

\* the rounds of a schedule whose fetch fails
FailingRounds(race_schedule) ==
    {i \in 1..Len(race_schedule.rounds) : ~race_schedule.rounds[i].session.ok}

\* the three structures of export_full_season_details
SeasonTallies(t) ==
    [all_results |-> t.all_results, driver_points |-> t.driver_points,
     team_points |-> t.team_points]

\* C2: when count_podiums, count_dnfs, compare_drivers or
\* export_full_season_details has returned its result, the tallies equal
\* those of the same call, with the same readings of the clock, on the
\* season with any one round whose fetch fails removed from the schedule.
C2_FailedRoundIsAbsentRound ==
    (pc = "done" /\ returned.kind # "None")
        => \A y \in DOMAIN provider : \A i \in FailingRounds(provider[y]) :
              LET without == WithoutRound(provider[y], i)
              IN  /\ call.op = "count_podiums"
                        => /\ podium_counts = RunCountPodiums(without, filtered_at[y])
                           /\ returned.rows =
                                 SortedByValueDesc(RunCountPodiums(without, filtered_at[y]))
                  /\ call.op = "count_dnfs"
                        => /\ dnf_counts = RunCountDnfs(without, filtered_at[y])
                           /\ returned.rows =
                                 SortedByValueDesc(RunCountDnfs(without, filtered_at[y]))
                  /\ call.op = "compare_drivers"
                        => returned.rows =
                              RunCompareDrivers([provider EXCEPT ![y] = without],
                                                filtered_at, call.years,
                                                call.driver1, call.driver2)
                  /\ call.op = "export_full_season_details"
                        => SeasonTallies([all_results |-> all_results,
                                          driver_points |-> driver_points,
                                          team_points |-> team_points])
                              = SeasonTallies(RunExportSeason(without, filtered_at[y]))

\* an aggregation has returned after a fetched round was folded and the
\* fetch of a later completed round failed
C2_Witness ==
    /\ pc = "done"
    /\ call.op \in {"count_podiums", "count_dnfs", "compare_drivers",
                    "export_full_season_details"}
    /\ \E i \in FetchedOk : \E j \in (i + 1)..Len(attempts) :
          /\ attempts[j][1] = attempts[i][1]
          /\ ~AttemptedSession(j).ok

(***************************************************************************)
(* C3.  export_full_season_details: a round whose processing ends in an    *)
(* error contributes nothing.                                              *)
(***************************************************************************)
\* the round of the i-th attempt is processed without error: the fetch
\* succeeds and the Points of every row are a number
ProcessedWithoutError(i) ==
    /\ AttemptedSession(i).ok
    /\ \A j \in 1..Len(AttemptedSession(i).rows) :
          AttemptedSession(i).rows[j].Points # BadPoints

RECURSIVE FoldWithoutError(_, _)
\* the fold of the first i attempts, over the rounds processed without error
FoldWithoutError(t, i) ==
    IF i = 0 THEN t
    ELSE LET before == FoldWithoutError(t, i - 1)
         IN  IF ProcessedWithoutError(i)
             THEN ExportRound(before, attempts[i][2], AttemptedSession(i))
             ELSE before

\* C3: after any sequence of rounds, all_results, driver_points and
\* team_points equal the fold over exactly the rounds processed without error.
C3_ErroredRoundContributesNothing ==
    (call.op = "export_full_season_details" /\ pc # "start")
        => SeasonTallies([all_results |-> all_results, driver_points |-> driver_points,
                          team_points |-> team_points])
              = SeasonTallies(FoldWithoutError(EmptySeason, Len(attempts)))

(***************************************************************************)
(* The seasons as the provider holds them, for the claims on               *)
(* compare_drivers.                                                        *)
(***************************************************************************)
\* the rounds of year y that are dated before the time at which the schedule
\* of y was filtered and whose fetch succeeds
FetchableRounds(y) ==
    {i \in 1..Len(provider[y].rounds) :
        /\ provider[y].rounds[i].EventDate < filtered_at[y]
        /\ provider[y].rounds[i].session.ok}

\* the rows of round i of year y
RowsOfRound(y, i) == provider[y].rounds[i].session.rows

\* the first row of driver d in a result set in which d has a row
FirstRowOf(rows, d) == rows[CHOOSE j \in RowsOfDriver(rows, d) :
                                \A k \in RowsOfDriver(rows, d) : j <= k]

\* the rounds among a set of rounds of year y in which driver d has a row
RoundsWith(y, rounds, d) == {i \in rounds : RowsOfDriver(RowsOfRound(y, i), d) # {}}

\* the points of driver d over a set of rounds of year y
PointsOver(y, rounds, d) ==
    SumOver([i \in RoundsWith(y, rounds, d) |-> FirstRowOf(RowsOfRound(y, i), d).Points],
            RoundsWith(y, rounds, d))

\* the wins of driver d over a set of rounds of year y
WinsOver(y, rounds, d) ==
    Cardinality({i \in RoundsWith(y, rounds, d) :
                    FirstRowOf(RowsOfRound(y, i), d).Position = 1})

\* the records compare_drivers holds, and returns once it has finished
ComparisonRecords ==
    IF returned.kind = "comparison_df" THEN returned.rows ELSE comparison_data

(***************************************************************************)
(* C6.  compare_drivers: the record of a year holds the points and wins of *)
(* that year only.                                                         *)
(***************************************************************************)
\* C6: every record of compare_drivers holds, for each of the two drivers,
\* the points and the wins of the record's year alone, whatever the seasons
\* before it were.
C6_RecordOfThatYearOnly ==
    call.op = "compare_drivers"
        => \A n \in 1..Len(ComparisonRecords) :
              LET rec == ComparisonRecords[n]
                  y   == Get(rec, <<"Year", "">>)
              IN  \A d \in {call.driver1, call.driver2} :
                     /\ Get(rec, <<d, "Wins">>) = WinsOver(y, FetchableRounds(y), d)
                     /\ Get(rec, <<d, "Points">>) = PointsOver(y, FetchableRounds(y), d)

\* compare_drivers has returned two records and the first driver has won
\* exactly one race in each of the two years
C6_Witness ==
    /\ call.op = "compare_drivers"
    /\ returned.kind = "comparison_df"
    /\ Len(returned.rows) = 2
    /\ \A n \in 1..2 : Get(returned.rows[n], <<call.driver1, "Wins">>) = 1
    /\ \A y \in Range(call.years) : WinsOver(y, FetchableRounds(y), call.driver1) = 1

(***************************************************************************)
(* C7.  compare_drivers: the counters of a year are the sums over the      *)
(* fetched rounds in which the driver has a row.                           *)
(***************************************************************************)
\* the rounds of the current year attempted so far whose fetch succeeded
FetchedThisYear ==
    {i \in FetchableRounds(CurYear) :
        \E a \in 1..Len(attempts) :
            attempts[a] = <<CurYear, provider[CurYear].rounds[i].RoundNumber>>}

\* C7: during the rounds of a year and when they are exhausted, the points
\* of each driver are the sum of the driver's points over the successfully
\* fetched rounds of that year in which the driver has a row, and the wins
\* are the number of those rounds in which the row's position is 1; a round
\* without a row of the driver counts for neither.
C7_CountersAreSumsOverRows ==
    (call.op = "compare_drivers" /\ pc = "rounds")
        => /\ driver1_points = PointsOver(CurYear, FetchedThisYear, call.driver1)
           /\ driver1_wins = WinsOver(CurYear, FetchedThisYear, call.driver1)
           /\ driver2_points = PointsOver(CurYear, FetchedThisYear, call.driver2)
           /\ driver2_wins = WinsOver(CurYear, FetchedThisYear, call.driver2)

\* the rounds of a year are exhausted: the second driver had no row in one
\* fetched round, scored without winning in another and won a third
C7_Witness ==
    /\ call.op = "compare_drivers"
    /\ pc = "rounds"
    /\ round_idx > Len(completed_rounds)
    /\ call.driver1 # call.driver2
    /\ \E i \in FetchedThisYear : RowsOfDriver(RowsOfRound(CurYear, i), call.driver2) = {}
    /\ driver2_wins = 1
    /\ Cardinality(RoundsWith(CurYear, FetchedThisYear, call.driver2)) = 2

(***************************************************************************)
(* C8.  compare_drivers with the same driver twice.                        *)
(***************************************************************************)
\* C8: when both drivers are the same abbreviation, the counters of driver 1
\* and of driver 2 are equal after every step, and every record holds equal
\* points and equal wins for the two.
C8_SameDriverSameCounters ==
    (call.op = "compare_drivers" /\ call.driver1 = call.driver2)
        => /\ driver1_points = driver2_points
           /\ driver1_wins = driver2_wins
           /\ \A n \in 1..Len(ComparisonRecords) :
                 LET rec == ComparisonRecords[n]
                 IN  /\ Get(rec, <<call.driver1, "Points">>)
                           = Get(rec, <<call.driver2, "Points">>)
                     /\ Get(rec, <<call.driver1, "Wins">>)
                           = Get(rec, <<call.driver2, "Wins">>)

\* compare_drivers of a driver with itself has returned a record with points
\* and a win, of a season with a round whose fetch failed
C8_Witness ==
    /\ call.op = "compare_drivers"
    /\ call.driver1 = call.driver2
    /\ returned.kind = "comparison_df"
    /\ \E n \in 1..Len(returned.rows) :
          /\ Get(returned.rows[n], <<call.driver1, "Points">>) > 0
          /\ Get(returned.rows[n], <<call.driver1, "Wins">>) > 0
          /\ \E a \in 1..Len(attempts) :
                /\ attempts[a][1] = Get(returned.rows[n], <<"Year", "">>)
                /\ ~AttemptedSession(a).ok

(***************************************************************************)
(* C9.  Only the rounds dated strictly before the current time are fetched *)
(* and folded.                                                             *)
(***************************************************************************)
\* the tallies of a returned aggregation are those of the same call with the
\* schedule of year y replaced by the schedule other
TalliesAsOn(y, other) ==
    /\ call.op = "count_podiums" => podium_counts = RunCountPodiums(other, filtered_at[y])
    /\ call.op = "count_dnfs" => dnf_counts = RunCountDnfs(other, filtered_at[y])
    /\ call.op = "compare_drivers"
          => returned.rows = RunCompareDrivers([provider EXCEPT ![y] = other],
                                               filtered_at, call.years,
                                               call.driver1, call.driver2)
    /\ call.op = "export_full_season_details"
          => SeasonTallies([all_results |-> all_results, driver_points |-> driver_points,
                            team_points |-> team_points])
                = SeasonTallies(RunExportSeason(other, filtered_at[y]))

\* round i of year y is not fetched, no message names it, no exported row or
\* race record is of it, and the tallies returned are those of the season
\* without it
RoundLeftOut(y, i) ==
    LET round == provider[y].rounds[i]
    IN  /\ \A a \in 1..Len(attempts) : attempts[a] # <<y, round.RoundNumber>>
        /\ \A m \in 1..Len(messages) :
              ~(messages[m].year = y /\ messages[m].round = round.RoundNumber)
        /\ \A r \in 1..Len(all_results) : all_results[r].Round # round.RoundNumber
        /\ \A r \in 1..Len(all_races) :
              ~(all_races[r].Year = y /\ all_races[r].Round = round.RoundNumber)
        /\ (pc = "done" /\ returned.kind # "None")
              => TalliesAsOn(y, WithoutRound(provider[y], i))

\* C9 as stated: in every aggregation, a round dated at or after the time
\* at which the aggregation was called is left out.
C9_OnlyRoundsBeforeInvocation ==
    \A y \in DOMAIN provider : \A i \in 1..Len(provider[y].rounds) :
        provider[y].rounds[i].EventDate >= Now => RoundLeftOut(y, i)

\* C9 as amended: in every aggregation, a round dated at or after the time
\* read when the schedule of its year is filtered is left out, and so is
\* every round of a year whose schedule has not been filtered.
C9_OnlyRoundsBeforeTimeRead ==
    \A y \in DOMAIN provider : \A i \in 1..Len(provider[y].rounds) :
        (filtered_at[y] = 0 \/ provider[y].rounds[i].EventDate >= filtered_at[y])
            => RoundLeftOut(y, i)

\* an aggregation has returned after reading the time for some year later
\* than at the call: of that year it fetched a round dated at the time of the
\* call and left out a round dated at the time read
C9_Witness ==
    /\ pc = "done"
    /\ \E y \in DOMAIN provider :
          /\ filtered_at[y] > Now
          /\ \E i \in 1..Len(provider[y].rounds) :
                /\ provider[y].rounds[i].EventDate = Now
                /\ \E a \in FetchedOk : attempts[a] = <<y, provider[y].rounds[i].RoundNumber>>
          /\ \E i \in 1..Len(provider[y].rounds) :
                /\ provider[y].rounds[i].EventDate = filtered_at[y]
                /\ \A a \in 1..Len(attempts) :
                      attempts[a] # <<y, provider[y].rounds[i].RoundNumber>>

(***************************************************************************)
(* C10.  A failure neither ends the loop nor is retried.                   *)
(***************************************************************************)
RECURSIVE RoundsToAttempt(_)
\* the <<year, round>> of the rounds dated before the time read for their
\* year, of the years whose schedule has been enumerated, in the order of the
\* years and of the schedule
RoundsToAttempt(years) ==
    IF years = <<>> THEN <<>>
    ELSE LET y == Head(years)
             before == SelectSeq(provider[y].rounds,
                                 LAMBDA r : r.EventDate < filtered_at[y])
         IN  [i \in 1..Len(before) |-> <<y, before[i].RoundNumber>>]
             \o RoundsToAttempt(Tail(years))

\* the kind of value an aggregation returns
ResultKind ==
    CASE call.op = "count_podiums" -> "podium_df"
      [] call.op = "count_dnfs" -> "dnf_df"
      [] call.op = "compare_drivers" -> "comparison_df"
      [] call.op = "export_full_season_details" -> "season"
      [] call.op = "export_all_time_race_data" -> "races_df"

\* an aggregation that has not returned is at a place from which one of its
\* actions can be taken: the loops are inside their sequences or just past them
StepEnabled ==
    /\ pc \in {"start", "years", "rounds"}
    /\ call.op \in {"count_podiums", "count_dnfs", "export_full_season_details"}
          => pc # "years"
    /\ pc = "rounds" => round_idx \in 1..(Len(completed_rounds) + 1)
    /\ pc = "years" => year_idx \in 1..(Len(call.years) + 1)

\* C10: for any pattern of failures, the fetch attempts made so far are the
\* first of the rounds to attempt, each once and in order; an aggregation
\* that has not returned can take its next step; and when it has returned,
\* every such round has been attempted and the result is returned (None only
\* from a single-season aggregation whose schedule cannot be enumerated).
C10_EveryRoundAttemptedOnce ==
    LET todo == RoundsToAttempt(call.years)
    IN  /\ Len(attempts) <= Len(todo)
        /\ attempts = SubSeq(todo, 1, Len(attempts))
        /\ pc # "done" => StepEnabled
        /\ pc = "done"
              => /\ attempts = todo
                 /\ \A y \in Range(call.years) : provider[y].ok => filtered_at[y] # 0
                 /\ \/ returned.kind = ResultKind
                    \/ /\ returned.kind = "None"
                       /\ Len(call.years) = 1
                       /\ ~provider[call.years[1]].ok

\* a multi-season aggregation has returned: the schedule of the first year
\* could not be enumerated, a fetch of the second year failed, and a later
\* round of that year was fetched
C10_Witness ==
    /\ pc = "done"
    /\ Len(call.years) = 2
    /\ ~provider[call.years[1]].ok
    /\ \E a \in 1..Len(attempts) : \E b \in FetchedOk :
          /\ a < b
          /\ ~AttemptedSession(a).ok

(***************************************************************************)
(* C11.  The rounds are processed in ascending round-number order, one     *)
(* after another.                                                          *)
(***************************************************************************)
\* the round numbers of the fetch attempts of year y, in the order made
AttemptNums(y) ==
    LET of_y == SelectSeq(attempts, LAMBDA a : a[1] = y)
    IN  [i \in 1..Len(of_y) |-> of_y[i][2]]

RECURSIVE RacesOfAttempts(_)
\* the race records of the first i fetch attempts
RacesOfAttempts(i) ==
    IF i = 0 THEN <<>>
    ELSE LET r == AllTimeRound(attempts[i][1], attempts[i][2], AttemptedSession(i))
         IN  IF r.raised THEN RacesOfAttempts(i - 1)
             ELSE Append(RacesOfAttempts(i - 1), r.race_info)

\* between two fetches every round attempted so far is folded or skipped as
\* a whole: the tallies are those of the for-round loop run over exactly the
\* rounds attempted
AttemptedRoundsFolded ==
    LET y == CurYear
    IN  /\ (call.op = "count_podiums" /\ pc = "rounds")
              => podium_counts = PodiumRounds(<<>>, provider[y], AttemptNums(y))
        /\ (call.op = "count_dnfs" /\ pc = "rounds")
              => dnf_counts = DnfRounds(<<>>, provider[y], AttemptNums(y))
        /\ (call.op = "compare_drivers" /\ pc = "rounds")
              => LET c == CompareRounds(ZeroCounters, provider[y], AttemptNums(y),
                                        call.driver1, call.driver2)
                 IN  <<driver1_points, driver1_wins, driver2_points, driver2_wins>>
                        = <<c.p1, c.w1, c.p2, c.w2>>
        /\ (call.op = "export_full_season_details" /\ pc = "rounds")
              => SeasonTallies([all_results |-> all_results, driver_points |-> driver_points,
                                team_points |-> team_points])
                    = SeasonTallies(ExportRounds(EmptySeason, provider[y], AttemptNums(y)))
        /\ call.op = "export_all_time_race_data"
              => all_races = RacesOfAttempts(Len(attempts))

\* the round numbers a sequence lists are strictly increasing
StrictlyIncreasing(nums) ==
    \A i \in 1..(Len(nums) - 1) : nums[i] < nums[i + 1]

\* the round numbers of a schedule, in the order the schedule lists them
ListedNumbers(race_schedule) ==
    [i \in 1..Len(race_schedule.rounds) |-> race_schedule.rounds[i].RoundNumber]

\* C11 as stated: for any schedule the provider returns, the round numbers of
\* the successive fetch attempts of a year are strictly increasing, and every
\* round attempted is folded or skipped as a whole before the next fetch.
C11_RoundNumbersIncrease ==
    /\ \A y \in DOMAIN provider : StrictlyIncreasing(AttemptNums(y))
    /\ AttemptedRoundsFolded

\* C11 as amended: the fetch attempts are made in the order in which the
\* schedule lists the rounds; their round numbers are strictly increasing
\* when the schedule lists the round numbers in strictly increasing order;
\* and every round attempted is folded or skipped as a whole before the next
\* fetch.
C11_ScheduleOrderOneByOne ==
    LET todo == RoundsToAttempt(call.years)
    IN  /\ Len(attempts) <= Len(todo)
        /\ attempts = SubSeq(todo, 1, Len(attempts))
        /\ \A y \in DOMAIN provider :
              StrictlyIncreasing(ListedNumbers(provider[y]))
                  => StrictlyIncreasing(AttemptNums(y))
        /\ AttemptedRoundsFolded

\* the schedule lists round 2 before round 1: both have been attempted in
\* that order, the first of them fetched and folded
C11_Witness ==
    \E a \in 1..(Len(attempts) - 1) :
        /\ attempts[a][1] = attempts[a + 1][1]
        /\ attempts[a][2] > attempts[a + 1][2]
        /\ AttemptedSession(a).ok
        /\ ListedNumbers(provider[attempts[a][1]]) = <<attempts[a][2], attempts[a + 1][2]>>
        /\ pc = "rounds"

(***************************************************************************)
(* C12.  The final totals do not depend on the order in which the rounds   *)
(* are processed.                                                          *)
(***************************************************************************)
\* the orders in which the items of a sequence can be listed
OrdersOf(seq) ==
    LET n == Len(seq)
        bijections == {f \in [1..n -> 1..n] : \A i, j \in 1..n : f[i] = f[j] => i = j}
    IN  {[i \in 1..n |-> seq[f[i]]] : f \in bijections}

\* an exported row without its running total
WithoutCumulative(row) ==
    [Round |-> row.Round, Driver |-> row.Driver, Team |-> row.Team,
     Position |-> row.Position, Points |-> row.Points, Status |-> row.Status]

\* the exported rows without their running totals, in no order
RowsWithoutCumulative(rows) == {WithoutCumulative(rows[i]) : i \in 1..Len(rows)}

\* the per-year record of compare_drivers when the rounds nums of year y are
\* processed in that order
RecordOver(y, nums) ==
    LET c == CompareRounds(ZeroCounters, provider[y], nums, call.driver1, call.driver2)
    IN  ComparisonRecord(y, call.driver1, call.driver2, c.p1, c.p2, c.w1, c.w2)

\* C12: when an aggregation has returned its result, the mappings
\* driver_points and team_points, the podium counts, the DNF counts and every
\* per-year record are those obtained by processing the same rounds in any
\* other order, and so are the exported rows apart from CumulativePoints.
C12_TotalsIndependentOfOrder ==
    (pc = "done" /\ returned.kind # "None")
        => \A y \in Range(call.years) : \A nums \in OrdersOf(AttemptNums(y)) :
              /\ call.op = "count_podiums"
                    => AsMap(podium_counts) = AsMap(PodiumRounds(<<>>, provider[y], nums))
              /\ call.op = "count_dnfs"
                    => AsMap(dnf_counts) = AsMap(DnfRounds(<<>>, provider[y], nums))
              /\ (call.op = "compare_drivers" /\ provider[y].ok)
                    => \E r \in 1..Len(returned.rows) : returned.rows[r] = RecordOver(y, nums)
              /\ call.op = "export_full_season_details"
                    => LET t == ExportRounds(EmptySeason, provider[y], nums)
                       IN  /\ AsMap(driver_points) = AsMap(t.driver_points)
                           /\ AsMap(team_points) = AsMap(t.team_points)
                           /\ Len(all_results) = Len(t.all_results)
                           /\ RowsWithoutCumulative(all_results)
                                 = RowsWithoutCumulative(t.all_results)

\* an aggregation has returned after folding two fetched rounds of a year
\* whose result sets differ, so that another order is another computation
C12_Witness ==
    /\ pc = "done"
    /\ call.op \in {"count_podiums", "count_dnfs", "compare_drivers",
                    "export_full_season_details"}
    /\ \E a, b \in FetchedOk :
          /\ a < b
          /\ attempts[a][1] = attempts[b][1]
          /\ AttemptedSession(a).rows # AttemptedSession(b).rows

(***************************************************************************)
(* C13.  A year whose rounds cannot be enumerated gives an empty result    *)
(* and no exception.                                                       *)
(***************************************************************************)
\* the years of the records of a comparison frame, in order
YearsOfRecords(rows) == [r \in 1..Len(rows) |-> Get(rows[r], <<"Year", "">>)]

\* the requested years whose schedule can be enumerated, in order
EnumerableYears == SelectSeq(call.years, LAMBDA y : provider[y].ok)

\* the tally an aggregation returns when it has folded no row
EmptyTally ==
    CASE call.op = "export_full_season_details"
            -> [kind |-> "season", results_df |-> <<>>, driver_standings |-> <<>>,
                team_standings |-> <<>>]
      [] OTHER -> [kind |-> ResultKind, rows |-> <<>>]

\* what compare_drivers and export_all_time_race_data return when the
\* schedule of year y cannot be enumerated: no record of y, the records of
\* the other years
OtherYearsRecorded(y) ==
    /\ returned.kind = ResultKind
    /\ \A y2 \in Range(EnumerableYears) :
          AttemptNums(y2) = CompletedRounds(provider[y2], filtered_at[y2])
    /\ call.op = "compare_drivers"
          => /\ YearsOfRecords(returned.rows) = EnumerableYears
             /\ \A r \in 1..Len(returned.rows) :
                   returned.rows[r] = RecordOver(EnumerableYears[r],
                                                 AttemptNums(EnumerableYears[r]))
    /\ call.op = "export_all_time_race_data"
          => /\ returned.rows = RacesOfAttempts(Len(attempts))
             /\ \A r \in 1..Len(returned.rows) : returned.rows[r].Year # y

\* C13 as stated: when get_race_schedule fails for a requested year, no round
\* of that year is fetched; count_podiums, count_dnfs and
\* export_full_season_details return an empty tally; compare_drivers and
\* export_all_time_race_data return no record of that year and the records of
\* the other years.
C13_EmptyTallyForFailedYear ==
    \A y \in Range(call.years) :
        ~provider[y].ok
            => /\ \A a \in 1..Len(attempts) : attempts[a][1] # y
               /\ pc = "done"
                     => IF Len(call.years) = 1
                        THEN returned = EmptyTally
                        ELSE OtherYearsRecorded(y)

\* C13 as amended: when get_race_schedule fails for a requested year, no
\* round of that year is fetched; count_podiums, count_dnfs and
\* export_full_season_details print the error, return None (no tally at
\* all) and write no file; compare_drivers and export_all_time_race_data
\* return no record of that year and the records of the other years.
C13_NoneForFailedYear ==
    \A y \in Range(call.years) :
        ~provider[y].ok
            => /\ \A a \in 1..Len(attempts) : attempts[a][1] # y
               /\ filtered_at[y] = 0
               /\ pc = "done"
                     => IF Len(call.years) = 1
                        THEN /\ returned = None
                             /\ messages = <<ErrorSchedule(y)>>
                             /\ files = <<>>
                             /\ podium_counts = <<>> /\ dnf_counts = <<>>
                             /\ all_results = <<>> /\ driver_points = <<>>
                             /\ team_points = <<>>
                        ELSE OtherYearsRecorded(y)

\* a multi-season aggregation has returned records of the second year after
\* the schedule of the first year could not be enumerated
C13_Witness ==
    /\ pc = "done"
    /\ Len(call.years) = 2
    /\ ~provider[call.years[1]].ok
    /\ returned.rows # <<>>
    /\ \E a \in FetchedOk : attempts[a][1] = call.years[2]
    /\ \E m \in 1..Len(messages) : messages[m] = ErrorSchedule(call.years[1])

(***************************************************************************)
(* C14.  No tally is shared between the calls made on one object.          *)
(***************************************************************************)
\* what the call returns when it is the first call on a fresh object with
\* the same provider data and the same readings of the clock
ReturnedWhenFirst ==
    LET y == call.years[1]
    IN  CASE call.op = "compare_drivers"
                -> [kind |-> "comparison_df",
                    rows |-> RunCompareDrivers(provider, filtered_at, call.years,
                                               call.driver1, call.driver2)]
          [] ~provider[y].ok -> None
          [] call.op = "count_podiums"
                -> [kind |-> "podium_df",
                    rows |-> SortedByValueDesc(RunCountPodiums(provider[y], filtered_at[y]))]
          [] call.op = "count_dnfs"
                -> [kind |-> "dnf_df",
                    rows |-> SortedByValueDesc(RunCountDnfs(provider[y], filtered_at[y]))]
          [] call.op = "export_full_season_details"
                -> LET t == RunExportSeason(provider[y], filtered_at[y])
                   IN  [kind |-> "season", results_df |-> t.all_results,
                        driver_standings |-> SortedByValueDesc(t.driver_points),
                        team_standings |-> SortedByValueDesc(t.team_points)]

\* C14: after any earlier calls on the same object, a call of count_podiums,
\* count_dnfs, compare_drivers or export_full_season_details returns what it
\* returns as the first call on a fresh object.
C14_ReturnsAsOnFreshObject ==
    (pc = "done" /\ call.op # "export_all_time_race_data")
        => returned = ReturnedWhenFirst

\* count_dnfs has returned a tally on an object on which an earlier call of
\* count_podiums left its tally
C14_Witness ==
    /\ pc = "done"
    /\ call.nth > 1
    /\ call.op = "count_dnfs"
    /\ returned.kind = "dnf_df"
    /\ returned.rows # <<>>
    /\ podium_counts # <<>>

(***************************************************************************)
(* C15.  The exports write no file before every completed round of every   *)
(* requested year has been attempted.                                      *)
(***************************************************************************)
\* C15: in export_full_season_details and export_all_time_race_data a file
\* has been written only when the loops are over and every completed round
\* of every requested year has been attempted; an export that is interrupted
\* during its loops has written no file.
C15_NoFileBeforeLastRound ==
    /\ files # <<>>
          => /\ pc = "done"
             /\ attempts = RoundsToAttempt(call.years)
             /\ \A y \in Range(call.years) : provider[y].ok => filtered_at[y] # 0
    /\ pc \in {"start", "years", "rounds", "interrupted"} => files = <<>>

\* an export is interrupted after it has folded a fetched round and before
\* it has attempted the last completed round: the rows it holds are in no file
C15_Witness ==
    /\ pc = "interrupted"
    /\ FetchedOk # {}
    /\ all_results # <<>> \/ all_races # <<>>
    /\ round_idx <= Len(completed_rounds)
    /\ files = <<>>

(***************************************************************************)
(* C16.  export_full_season_details: CumulativePoints is the running total *)
(* of the driver's exported Points.                                        *)
(***************************************************************************)
RECURSIVE PointsUpTo(_, _, _)
\* the sum of the Points of the rows of driver d among the first r rows
PointsUpTo(rows, d, r) ==
    IF r = 0 THEN 0
    ELSE PointsUpTo(rows, d, r - 1) + (IF rows[r].Driver = d THEN rows[r].Points ELSE 0)

\* the exported rows of driver d
ExportedRowsOf(d) == {r \in 1..Len(all_results) : all_results[r].Driver = d}

\* the last exported row of a driver who has one
LastRowOf(d) == CHOOSE r \in ExportedRowsOf(d) : \A q \in ExportedRowsOf(d) : q <= r

\* C16: the CumulativePoints of every exported row is the sum of the Points
\* of the driver's exported rows up to and including it, and when the export
\* has returned, the CumulativePoints of every driver's last exported row is
\* the driver's total in the driver standings.
C16_CumulativeIsRunningTotal ==
    call.op = "export_full_season_details"
        => /\ \A r \in 1..Len(all_results) :
                 all_results[r].CumulativePoints
                    = PointsUpTo(all_results, all_results[r].Driver, r)
           /\ (pc = "done" /\ returned.kind = "season")
                 => /\ returned.results_df = all_results
                    /\ \A d \in Drivers :
                          ExportedRowsOf(d) # {}
                              => /\ d \in Keys(returned.driver_standings)
                                 /\ all_results[LastRowOf(d)].CumulativePoints
                                       = Get(returned.driver_standings, d)

\* the export has returned rows of two rounds for a driver who scored in
\* both, and another driver's row raised after rows of its round were exported
C16_Witness ==
    /\ pc = "done"
    /\ call.op = "export_full_season_details"
    /\ \E r1, r2 \in 1..Len(all_results) :
          /\ r1 < r2
          /\ all_results[r1].Driver = all_results[r2].Driver
          /\ all_results[r1].Driver # all_results[1].Driver
          /\ all_results[r1].Points > 0
          /\ all_results[r2].Points > 0
    /\ \E m \in 1..Len(messages) : messages[m].kind = "Error processing round"
    /\ \E d \in Keys(driver_points) : ExportedRowsOf(d) = {}

(***************************************************************************)
(* C17.  export_all_time_race_data: a round without a fastest lap is still *)
(* recorded; a round whose fetch or winner lookup fails is not.            *)
(***************************************************************************)
\* the fetch of the session succeeds and its result set has a first row
WinnerFound(session) == session.ok /\ session.rows # <<>>

\* the fetch attempts whose round is recorded, in the order made
RecordedAttempts ==
    SelectSeq(attempts, LAMBDA a : WinnerFound(get_session(a[1], a[2])))

\* C17: all_races holds, in the order of the fetch attempts, one record for
\* every round whose fetch and winner lookup succeeded and none for the
\* others, for which the error is printed; the record of a round whose
\* fastest lap cannot be obtained has 'N/A' for FastestLapDriver and
\* FastestLapTime, the record of any other round has the lap's driver and
\* time; the frame returned holds these records.
C17_RoundWithoutFastestLapIsKept ==
    call.op = "export_all_time_race_data"
        => /\ Len(all_races) = Len(RecordedAttempts)
           /\ \A i \in 1..Len(all_races) :
                 LET session == get_session(RecordedAttempts[i][1], RecordedAttempts[i][2])
                     race == all_races[i]
                 IN  /\ <<race.Year, race.Round>> = RecordedAttempts[i]
                     /\ \E w \in 1..Len(session.rows) :
                           /\ session.rows[w].Position = 1
                           /\ race.Winner = session.rows[w].Abbreviation
                           /\ race.WinningTeam = session.rows[w].TeamName
                     /\ IF session.laps.ok
                        THEN /\ race.FastestLapDriver = session.laps.Driver
                             /\ race.FastestLapTime = session.laps.LapTime
                        ELSE /\ race.FastestLapDriver = "N/A"
                             /\ race.FastestLapTime = "N/A"
           /\ \A a \in 1..Len(attempts) :
                 ~WinnerFound(AttemptedSession(a))
                     <=> \E m \in 1..Len(messages) :
                            messages[m] = ErrorRound(attempts[a][1], attempts[a][2])
           /\ pc = "done" => returned = [kind |-> "races_df", rows |-> all_races]

\* the export has returned: one round has no fastest lap and is recorded
\* with 'N/A', the fetch of another failed, the winner lookup of a third
\* failed, and these two are not recorded
C17_Witness ==
    /\ pc = "done"
    /\ call.op = "export_all_time_race_data"
    /\ \E i \in 1..Len(returned.rows) :
          /\ returned.rows[i].FastestLapDriver = "N/A"
          /\ returned.rows[i].FastestLapTime = "N/A"
    /\ \E a \in 1..Len(attempts) : ~AttemptedSession(a).ok
    /\ \E a \in FetchedOk : AttemptedSession(a).rows = <<>>
    /\ Len(returned.rows) = Len(attempts) - 2

====
